---- MODULE Spec2Model ----
(***************************************************************************)
(* RoamJS breadcrumbs extension (src/src/index.ts).                        *)
(*                                                                         *)
(* The module-level state (breadcrumbHistory, currentLocation,             *)
(* hashChangeListener), the host objects the code touches (the URL hash,   *)
(* the queue of hashchange events, the top bar, the injected panel and     *)
(* style element, the graph database behind roamAlphaAPI.q) and the async  *)
(* navigation handler, cut at its two awaits.                              *)
(*                                                                         *)
(* The activation callback runs once per module instance: the state        *)
(* machine goes init -> activating -> active -> unloaded, or               *)
(* init -> disabled.                                                       *)
(*                                                                         *)
(* Texts, uids and the hash are sequences of one-character strings, and    *)
(* stripMarkdown and getLocationFromHash are computed by their regular     *)
(* expressions.  Spec is the extension as a whole; SpecStrip is            *)
(* renderBreadcrumbs and the click listeners of the elements it creates,   *)
(* over titles of any text and over the truncate lengths readSettings      *)
(* can yield; SpecSettings is Spec with a user who changes the settings    *)
(* while the extension runs.                                               *)
(***************************************************************************)
EXTENDS Integers, Sequences, FiniteSets, Bags, TLC

VARIABLES
    phase,               \* position of the activation callback / unload handle
    settings,            \* the `settings` constant captured by the listener closure
    storedSettings,      \* what readSettings would return now: the two keys of
                         \* extensionAPI.settings as parsePositiveInteger reads them
    hash,                \* window.location.hash
    pendingHashEvents,   \* hashchange events queued by the host, not yet dispatched
    hashChangeListener,  \* TRUE when the listener is registered (non-null)
    breadcrumbHistory,   \* most recent first
    currentLocation,     \* Location or NullLocation
    inflight,            \* bag of handleNavigation calls suspended at an await
    topbar,              \* does document.querySelector(".rm-topbar") find an element
    panel,               \* does #roam-breadcrumbs-panel exist
    styles,              \* does #roam-breadcrumbs-styles exist
    content,             \* what the .breadcrumbs-content element shows
    click,               \* the last click event dispatched on a rendered element
    openRequests,        \* the host calls made by the listener that click ran
    upsertLog,           \* history variable: the latest run of upserts of pairwise
                         \* distinct ids since the last clear, oldest first
    lastEvent            \* history variable: how the handler run by the last step ended
                         \* ("noListener" when an event found none, "other" when the
                         \* step ran none or the handler ended unremarkably)

vars == << phase, settings, storedSettings, hash, pendingHashEvents, hashChangeListener,
           breadcrumbHistory, currentLocation, inflight, topbar, panel, styles,
           content, click, openRequests, upsertLog, lastEvent >>

----------------------------------------------------------------------------
(* Bounds of the model *)

MaxInFlight == 2
MaxPendingEvents == 1

----------------------------------------------------------------------------
(* Strings are sequences of one-character strings. *)

EmptyBlockText == << "(", "e", "m", "p", "t", "y", " ", "b", "l", "o", "c", "k", ")" >>

NoHistoryText == << "N", "o", " ", "h", "i", "s", "t", "o", "r", "y", " ", "y", "e", "t" >>

(* null values, shaped like the values they stand in for *)
NullLocation == [type |-> "null", uid |-> <<>>]

NullSettings == [maxBreadcrumbs |-> -1, truncateLength |-> -1]

DEFAULT_SETTINGS == [maxBreadcrumbs |-> 8, truncateLength |-> 25]

----------------------------------------------------------------------------
(* Regular expressions, as far as the patterns of index.ts need them: a    *)
(* pattern is a sequence of atoms, an atom is a character class (negated   *)
(* or not), taken once or repeated (min 0 or 1 times, greedy or lazy),      *)
(* capturing or not.                                                       *)
(* There is at most one capture group per pattern and it wraps one atom.   *)

Lit(c) == [cls |-> {c}, neg |-> FALSE, min |-> 1, many |-> FALSE, lazy |-> FALSE, cap |-> FALSE]

(* [^c]+ and [^c]* *)
NotPlus(c) == [cls |-> {c}, neg |-> TRUE, min |-> 1, many |-> TRUE, lazy |-> FALSE, cap |-> FALSE]
NotStar(c) == [cls |-> {c}, neg |-> TRUE, min |-> 0, many |-> TRUE, lazy |-> FALSE, cap |-> FALSE]

(* [...]+ *)
ClassPlus(cs) == [cls |-> cs, neg |-> FALSE, min |-> 1, many |-> TRUE, lazy |-> FALSE, cap |-> FALSE]

(* .* and .*? : the texts of the model hold no line terminator *)
AnyStar == [cls |-> {}, neg |-> TRUE, min |-> 0, many |-> TRUE, lazy |-> FALSE, cap |-> FALSE]
AnyStarLazy == [AnyStar EXCEPT !.lazy = TRUE]

(* ( atom ) *)
Group(atom) == [atom EXCEPT !.cap = TRUE]

Lits(text) == [i \in 1..Len(text) |-> Lit(text[i])]

AtomMatches(atom, c) == (c \in atom.cls) # atom.neg

SetMin(S) == CHOOSE n \in S : \A m \in S : n <= m
SetMax(S) == CHOOSE n \in S : \A m \in S : n >= m

(* how many characters from position pos on the atom can take at most *)
RunLength(atom, s, pos) ==
    LET left == Len(s) - pos + 1
        limit == IF atom.many \/ left < 1 THEN left ELSE 1
    IN  SetMax({n \in 0..limit : \A j \in 0..(n - 1) : AtomMatches(atom, s[pos + j])})

NoMatch == [ok |-> FALSE, start |-> 0, end |-> 0, capStart |-> 0, capEnd |-> 0]

(* the backtracking match of atoms k.. of pattern re at position pos: a    *)
(* greedy atom takes the longest run that lets the rest match, a lazy one  *)
(* the shortest; end and capEnd are one past the last character            *)
RECURSIVE MatchAt(_, _, _, _)
MatchAt(re, k, s, pos) ==
    IF k > Len(re)
    THEN [ok |-> TRUE, start |-> pos, end |-> pos, capStart |-> 0, capEnd |-> 0]
    ELSE LET atom == re[k]
             rests == [n \in atom.min..RunLength(atom, s, pos) |->
                          MatchAt(re, k + 1, s, pos + n)]
             good == {n \in DOMAIN rests : rests[n].ok}
         IN  IF good = {} THEN NoMatch
             ELSE LET n == IF atom.lazy THEN SetMin(good) ELSE SetMax(good)
                  IN  [ok |-> TRUE, start |-> pos, end |-> rests[n].end,
                       capStart |-> IF atom.cap THEN pos ELSE rests[n].capStart,
                       capEnd |-> IF atom.cap THEN pos + n ELSE rests[n].capEnd]

(* String.prototype.match without the g flag: the leftmost match *)
RECURSIVE Search(_, _, _)
Search(re, s, from) ==
    IF from > Len(s) + 1 THEN NoMatch
    ELSE LET m == MatchAt(re, 1, s, from)
         IN  IF m.ok THEN m ELSE Search(re, s, from + 1)

Capture(s, m) == SubSeq(s, m.capStart, m.capEnd - 1)

(* String.prototype.replace with the g flag; the replacement is a literal  *)
(* prefix followed, when withCapture, by $1                                *)
RECURSIVE ReplaceFrom(_, _, _, _, _)
ReplaceFrom(re, s, from, prefix, withCapture) ==
    LET m == Search(re, s, from)
    IN  IF ~m.ok THEN SubSeq(s, from, Len(s))
        ELSE SubSeq(s, from, m.start - 1)
             \o prefix
             \o (IF withCapture THEN Capture(s, m) ELSE <<>>)
             \o ReplaceFrom(re, s, m.end, prefix, withCapture)

ReplaceAll(s, re, prefix, withCapture) == ReplaceFrom(re, s, 1, prefix, withCapture)

(* String.prototype.trim: the texts of the model hold no white space but " " *)
RECURSIVE Trim(_)
Trim(s) ==
    IF s = <<>> THEN s
    ELSE IF Head(s) = " " THEN Trim(Tail(s))
    ELSE IF s[Len(s)] = " " THEN Trim(SubSeq(s, 1, Len(s) - 1))
    ELSE s

(* String.prototype.slice(start, end): a negative index counts from the end *)
Slice(s, start, end) ==
    LET clamp(i) == IF i < 0 THEN (IF Len(s) + i < 0 THEN 0 ELSE Len(s) + i)
                    ELSE IF i > Len(s) THEN Len(s) ELSE i
    IN  SubSeq(s, clamp(start) + 1, clamp(end))

----------------------------------------------------------------------------
(* stripMarkdown and truncateText *)

(* the character ` (a string of the model cannot hold it) *)
Backtick == "backtick"

Wrapped(open, inner, close) == Lits(open) \o << inner >> \o Lits(close)

(* the patterns of stripMarkdown, in the order it applies them *)
BoldPattern == Wrapped(<<"*", "*">>, Group(NotPlus("*")), <<"*", "*">>)

UnderlinePattern == Wrapped(<<"_", "_">>, Group(NotPlus("_")), <<"_", "_">>)

ItalicPattern == Wrapped(<<"*">>, Group(NotPlus("*")), <<"*">>)

EmphasisPattern == Wrapped(<<"_">>, Group(NotPlus("_")), <<"_">>)

StrikePattern == Wrapped(<<"~", "~">>, Group(NotPlus("~")), <<"~", "~">>)

PageRefPattern == Wrapped(<<"[", "[">>, Group(NotPlus("]")), <<"]", "]">>)

BlockRefPattern == Wrapped(<<"(", "(">>, Group(NotPlus(")")), <<")", ")">>)

CodeBlockPattern ==
    Wrapped(<<Backtick, Backtick, Backtick>>, NotStar(Backtick), <<Backtick, Backtick, Backtick>>)

CodePattern == Wrapped(<<Backtick>>, Group(NotPlus(Backtick)), <<Backtick>>)

ImagePattern ==
    Wrapped(<<"!", "[">>, AnyStarLazy, <<"]">>) \o Wrapped(<<"(">>, AnyStarLazy, <<")">>)

LinkPattern ==
    Wrapped(<<"[">>, Group(NotPlus("]")), <<"]">>) \o Wrapped(<<"(">>, NotPlus(")"), <<")">>)

MacroPattern == Wrapped(<<"{", "{">>, AnyStarLazy, <<"}", "}">>)

TagPattern == Wrapped(<<"#", "[", "[">>, Group(NotPlus("]")), <<"]", "]">>)

(* the replace calls of stripMarkdown, in order: the pattern, and the      *)
(* replacement as a literal prefix followed, when withCapture, by $1       *)
Replacement(re, prefix, withCapture) ==
    [re |-> re, prefix |-> prefix, withCapture |-> withCapture]

MarkdownReplacements ==
    << Replacement(BoldPattern, <<>>, TRUE),
       Replacement(UnderlinePattern, <<>>, TRUE),
       Replacement(ItalicPattern, <<>>, TRUE),
       Replacement(EmphasisPattern, <<>>, TRUE),
       Replacement(StrikePattern, <<>>, TRUE),
       Replacement(PageRefPattern, <<>>, TRUE),
       Replacement(BlockRefPattern, <<"-", ">">>, FALSE),
       Replacement(CodeBlockPattern, <<"[", "c", "o", "d", "e", "]">>, FALSE),
       Replacement(CodePattern, <<>>, TRUE),
       Replacement(ImagePattern, <<"[", "i", "m", "g", "]">>, FALSE),
       Replacement(LinkPattern, <<>>, TRUE),
       Replacement(MacroPattern, <<>>, FALSE),
       Replacement(TagPattern, <<"#">>, TRUE) >>

(* text.replace(...).replace(...)... : the first count replace calls *)
RECURSIVE ReplaceChain(_, _)
ReplaceChain(text, count) ==
    IF count = 0 THEN text
    ELSE LET r == MarkdownReplacements[count]
         IN  ReplaceAll(ReplaceChain(text, count - 1), r.re, r.prefix, r.withCapture)

stripMarkdown(text) == Trim(ReplaceChain(text, Len(MarkdownReplacements)))

----------------------------------------------------------------------------
(* The graph database behind window.roamAlphaAPI.q: the rows each of the   *)
(* two datalog queries returns for a uid.  pgA is a page, blk1 a block     *)
(* with text, blk2 a block whose string is empty, gone is no entity.       *)

pgA == << "p", "g", "A" >>

blk1 == << "b", "l", "k", "1" >>

blk2 == << "b", "l", "k", "2" >>

gone == << "g", "o", "n", "e" >>

Uids == {pgA, blk1, blk2, gone}

PageTitleRows(uid) ==
    CASE uid = pgA -> << << <<"*", "*", "A", "*", "*">> >> >>
      [] OTHER -> <<>>

BlockStringRows(uid) ==
    CASE uid = blk1 -> << << <<"t", "o", "d", "o">> >> >>
      [] uid = blk2 -> << << <<>> >> >>
      [] OTHER -> <<>>

----------------------------------------------------------------------------
(* Settings values as the host hands them over, and Number(value).         *)
(* A number is kept in tenths, so that 0.5 and 2.7 can be told from 0, 2.  *)

RawUndefined == [kind |-> "undefined", tenths |-> 0]
RawNumber(t) == [kind |-> "number", tenths |-> t]
RawString(t) == [kind |-> "numericString", tenths |-> t]
RawText == [kind |-> "text", tenths |-> 0]
RawInfinity == [kind |-> "infinity", tenths |-> 0]

RawMaxBreadcrumbs ==
    { RawUndefined, RawText, RawInfinity, RawNumber(0), RawNumber(-10),
      RawNumber(5), RawNumber(10), RawNumber(17), RawString(10) }

RawTruncateLength == { RawUndefined }

RawEnabled == { "undefined", "true", "false" }

ToNumber(value) ==
    CASE value.kind \in {"number", "numericString"} ->
             [finite |-> TRUE, positive |-> value.tenths > 0, tenths |-> value.tenths]
      [] value.kind = "infinity" ->
             [finite |-> FALSE, positive |-> TRUE, tenths |-> 0]
      [] OTHER ->  \* undefined, non-numeric text: NaN
             [finite |-> FALSE, positive |-> FALSE, tenths |-> 0]

parsePositiveInteger(value, fallback) ==
    LET parsed == ToNumber(value)
    IN  IF parsed.finite /\ parsed.positive THEN parsed.tenths \div 10 ELSE fallback

readSettings(rawMax, rawTrunc) ==
    [ maxBreadcrumbs |-> parsePositiveInteger(rawMax, DEFAULT_SETTINGS.maxBreadcrumbs),
      truncateLength |-> parsePositiveInteger(rawTrunc, DEFAULT_SETTINGS.truncateLength) ]

----------------------------------------------------------------------------
(* The URL hash and the two patterns of getLocationFromHash *)

AppRoute == << "#", "/", "a", "p", "p", "/", "g" >>

PageSegment == << "/", "p", "a", "g", "e", "/" >>

BlockParam == << "b", "l", "o", "c", "k", "=" >>

ViewParam == << "v", "i", "e", "w", "=", "1" >>

PageHash(uid) == AppRoute \o PageSegment \o uid

WithQuery(h, query) == h \o << "?" >> \o query

HashValues ==
    { AppRoute,
      PageHash(pgA),
      WithQuery(PageHash(pgA), ViewParam),
      PageHash(blk1),
      PageHash(gone),
      WithQuery(PageHash(pgA), BlockParam \o blk2) }

(* [a-zA-Z0-9_-] *)
IdChars ==
    { "a", "b", "c", "d", "e", "f", "g", "h", "i", "j", "k", "l", "m",
      "n", "o", "p", "q", "r", "s", "t", "u", "v", "w", "x", "y", "z",
      "A", "B", "C", "D", "E", "F", "G", "H", "I", "J", "K", "L", "M",
      "N", "O", "P", "Q", "R", "S", "T", "U", "V", "W", "X", "Y", "Z",
      "0", "1", "2", "3", "4", "5", "6", "7", "8", "9", "_", "-" }

(* /\/page\/[^?]+\?.*block=([a-zA-Z0-9_-]+)/ *)
BlockPattern ==
    Lits(PageSegment) \o << NotPlus("?"), Lit("?"), AnyStar >>
        \o Lits(BlockParam) \o << Group(ClassPlus(IdChars)) >>

(* /\/page\/([a-zA-Z0-9_-]+)/ *)
PagePattern == Lits(PageSegment) \o << Group(ClassPlus(IdChars)) >>

(* mutant: the page pattern is tried before the block pattern *)
getLocationFromHash_PageFirst(h) ==
    LET blockMatch == Search(BlockPattern, h, 1)
        pageMatch == Search(PagePattern, h, 1)
    IN  IF pageMatch.ok /\ Capture(h, pageMatch) # <<>>
        THEN [type |-> "page", uid |-> Capture(h, pageMatch)]
        ELSE IF blockMatch.ok /\ Capture(h, blockMatch) # <<>>
             THEN [type |-> "block", uid |-> Capture(h, blockMatch)]
             ELSE NullLocation

getLocationFromHash(h) ==
    LET blockMatch == Search(BlockPattern, h, 1)
        pageMatch == Search(PagePattern, h, 1)
    IN  IF blockMatch.ok /\ Capture(h, blockMatch) # <<>>
        THEN [type |-> "block", uid |-> Capture(h, blockMatch)]
        ELSE IF pageMatch.ok /\ Capture(h, pageMatch) # <<>>
             THEN [type |-> "page", uid |-> Capture(h, pageMatch)]
             ELSE NullLocation

(* getLocationFromHash of the hashes of the model, computed once *)
HashLocations == [h \in HashValues |-> getLocationFromHash(h)]

(* getLocationFromHash() when window.location.hash is h *)
locationOfHash(h) == IF h \in HashValues THEN HashLocations[h] ELSE getLocationFromHash(h)

----------------------------------------------------------------------------
(* Content resolution *)

queryPageTitle(uid) ==
    LET pageResult == PageTitleRows(uid)
    IN  IF Len(pageResult) > 0 /\ Len(pageResult[1]) > 0 /\ pageResult[1][1] # <<>>
        THEN [found |-> TRUE, text |-> pageResult[1][1]]
        ELSE [found |-> FALSE, text |-> <<>>]

(* mutant: the empty-result check is lost, an absent block reads as empty *)
queryBlockString_NoLengthCheck(uid) ==
    LET blockResult == BlockStringRows(uid)
    IN  [found |-> TRUE,
         text |-> IF Len(blockResult) > 0 /\ blockResult[1][1] # <<>>
                  THEN blockResult[1][1]
                  ELSE EmptyBlockText]

(* mutant: an empty block string is returned as it is *)
queryBlockString_NoEmptyBlockText(uid) ==
    LET blockResult == BlockStringRows(uid)
    IN  IF Len(blockResult) = 0
        THEN [found |-> FALSE, text |-> <<>>]
        ELSE [found |-> TRUE, text |-> blockResult[1][1]]

queryBlockString(uid) ==
    LET blockResult == BlockStringRows(uid)
    IN  IF Len(blockResult) = 0
        THEN [found |-> FALSE, text |-> <<>>]
        ELSE [found |-> TRUE,
              text |-> IF blockResult[1][1] # <<>> THEN blockResult[1][1]
                       ELSE EmptyBlockText]

(* getBreadcrumbItemByUid after its first await *)
pageItem(uid, pageTitle) == [uid |-> uid, type |-> "page", title |-> pageTitle]

(* getBreadcrumbItemByUid after its second await *)
blockItem(uid, blockString) == [uid |-> uid, type |-> "block", title |-> blockString]

----------------------------------------------------------------------------
(* Labels *)

(* every text the two queries can return for the uids of the database *)
DatabaseTexts ==
    {queryPageTitle(uid).text : uid \in Uids} \cup {queryBlockString(uid).text : uid \in Uids}

(* stripMarkdown of the texts of the database, computed once *)
StrippedDatabaseTexts == [text \in DatabaseTexts |-> stripMarkdown(text)]

(* stripMarkdown({ text }) *)
cleanedText(text) ==
    IF text \in DatabaseTexts THEN StrippedDatabaseTexts[text] ELSE stripMarkdown(text)

Ellipsis == << ".", ".", "." >>

truncateText(text, maxLength) ==
    LET cleaned == cleanedText(text)
    IN  IF Len(cleaned) <= maxLength THEN cleaned
        ELSE Slice(cleaned, 0, maxLength - 1) \o Ellipsis

----------------------------------------------------------------------------
(* History store *)

(* mutant: the limit is one entry too large *)
updateBreadcrumbHistory_OffByOne(history, item, maxBreadcrumbs) ==
    LET filtered == SelectSeq(history, LAMBDA historyItem : historyItem.uid # item.uid)
        unshifted == << item >> \o filtered
        maxEntries == maxBreadcrumbs + 2
    IN  IF Len(unshifted) > maxEntries
        THEN SubSeq(unshifted, 1, maxEntries)
        ELSE unshifted

(* mutant: the entry sharing the item's uid is not removed *)
updateBreadcrumbHistory_NoDedup(history, item, maxBreadcrumbs) ==
    LET unshifted == << item >> \o history
        maxEntries == maxBreadcrumbs + 1
    IN  IF Len(unshifted) > maxEntries
        THEN SubSeq(unshifted, 1, maxEntries)
        ELSE unshifted

(* mutant: the item is pushed to the back instead of the front *)
updateBreadcrumbHistory_Push(history, item, maxBreadcrumbs) ==
    LET filtered == SelectSeq(history, LAMBDA historyItem : historyItem.uid # item.uid)
        pushed == Append(filtered, item)
        maxEntries == maxBreadcrumbs + 1
    IN  IF Len(pushed) > maxEntries
        THEN SubSeq(pushed, 1, maxEntries)
        ELSE pushed

(* mutant: the slice keeps the tail and drops the head *)
updateBreadcrumbHistory_KeepsTail(history, item, maxBreadcrumbs) ==
    LET filtered == SelectSeq(history, LAMBDA historyItem : historyItem.uid # item.uid)
        unshifted == << item >> \o filtered
        maxEntries == maxBreadcrumbs + 1
    IN  IF Len(unshifted) > maxEntries
        THEN SubSeq(unshifted, Len(unshifted) - maxEntries + 1, Len(unshifted))
        ELSE unshifted

updateBreadcrumbHistory(history, item, maxBreadcrumbs) ==
    LET filtered == SelectSeq(history, LAMBDA historyItem : historyItem.uid # item.uid)
        unshifted == << item >> \o filtered
        maxEntries == maxBreadcrumbs + 1
    IN  IF Len(unshifted) > maxEntries
        THEN SubSeq(unshifted, 1, maxEntries)
        ELSE unshifted

----------------------------------------------------------------------------
(* Rendering *)

Reverse(s) == [i \in 1..Len(s) |-> s[Len(s) + 1 - i]]

(* mutant: the page branch does not return, the block call follows it *)
navigateTo_NoReturn(uid, type) ==
    (IF type = "page" THEN << [api |-> "mainWindow.openPage", uid |-> uid] >> ELSE <<>>)
        \o << [api |-> "mainWindow.openBlock", uid |-> uid] >>

(* the host calls navigateTo makes, in order *)
navigateTo(uid, type) ==
    IF type = "page"
    THEN << [api |-> "mainWindow.openPage", uid |-> uid] >>
    ELSE << [api |-> "mainWindow.openBlock", uid |-> uid] >>

(* the span element: uid and type are what its click listener closes over, *)
(* clickable tells whether the listener was added                          *)
createBreadcrumbElement(item, isCurrent, truncateLength) ==
    [ uid |-> item.uid,
      type |-> item.type,
      isCurrent |-> isCurrent,
      textContent |-> truncateText(item.title, truncateLength),
      title |-> cleanedText(item.title),
      clickable |-> ~isCurrent ]

(* the content element: missing with its panel, empty as created, holding *)
(* the placeholder text, or holding one child per breadcrumb               *)
AbsentContent == [kind |-> "absent", text |-> <<>>, items |-> <<>>]

BlankContent == [kind |-> "blank", text |-> <<>>, items |-> <<>>]

PlaceholderContent == [kind |-> "placeholder", text |-> NoHistoryText, items |-> <<>>]

(* mutant: the history is rendered in storage order *)
renderBreadcrumbs_NoReverse(history, truncateLength) ==
    IF Len(history) = 0
    THEN PlaceholderContent
    ELSE LET displayOrder == history
         IN  [ kind |-> "items",
               text |-> <<>>,
               items |-> [index \in 1..Len(displayOrder) |->
                            createBreadcrumbElement(displayOrder[index],
                                                    index = Len(displayOrder),
                                                    truncateLength)] ]

(* mutant: the empty history is rendered like any other *)
renderBreadcrumbs_NoPlaceholder(history, truncateLength) ==
    LET displayOrder == Reverse(history)
    IN  [ kind |-> "items",
          text |-> <<>>,
          items |-> [index \in 1..Len(displayOrder) |->
                       createBreadcrumbElement(displayOrder[index],
                                               index = Len(displayOrder),
                                               truncateLength)] ]

(* the children renderBreadcrumbs leaves in the content element *)
renderBreadcrumbs(history, truncateLength) ==
    IF Len(history) = 0
    THEN PlaceholderContent
    ELSE LET displayOrder == Reverse(history)
         IN  [ kind |-> "items",
               text |-> <<>>,
               items |-> [index \in 1..Len(displayOrder) |->
                            createBreadcrumbElement(displayOrder[index],
                                                    index = Len(displayOrder),
                                                    truncateLength)] ]

(* no click event so far *)
NoClick == [index |-> 0, shiftKey |-> FALSE]

(* getOrCreatePanel: the panel exists afterwards iff it existed or the top bar does *)
getOrCreatePanel(panelExists, topbarExists) == panelExists \/ topbarExists

----------------------------------------------------------------------------
TypeOK ==
    /\ phase \in {"init", "activating", "active", "disabled", "unloaded"}
    /\ hash \in HashValues
    /\ pendingHashEvents \in 0..MaxPendingEvents
    /\ hashChangeListener \in BOOLEAN
    /\ topbar \in BOOLEAN /\ panel \in BOOLEAN /\ styles \in BOOLEAN
    /\ BagCardinality(inflight) <= MaxInFlight

Init ==
    /\ phase = "init"
    /\ settings = NullSettings
    /\ storedSettings = NullSettings
    /\ hash \in HashValues
    /\ pendingHashEvents = 0
    /\ hashChangeListener = FALSE
    /\ breadcrumbHistory = <<>>
    /\ currentLocation = NullLocation
    /\ inflight = EmptyBag
    /\ topbar \in BOOLEAN
    /\ panel = FALSE
    /\ styles = FALSE
    /\ content = AbsentContent
    /\ click = NoClick
    /\ openRequests = <<>>
    /\ upsertLog = <<>>
    /\ lastEvent = "other"

----------------------------------------------------------------------------
(* handleNavigation, up to its first await *)

(* mutant: the same-uid early return is lost *)
startsLookup_NoSameUidCheck(location, current) ==
    location # NullLocation

(* mutant: the no-location early return is lost *)
startsLookup_NoLocationCheck(location, current) ==
    ~(current # NullLocation /\ current.uid = location.uid)

(* mutant: a lookup already in flight for the same uid also short-circuits *)
startsLookup_ChecksInFlight(location, current) ==
    /\ location # NullLocation
    /\ ~(current # NullLocation /\ current.uid = location.uid)
    /\ \A q \in BagToSet(inflight) : q.location.uid # location.uid

(* the two early returns before the lookup *)
startsLookup(location, current) ==
    /\ location # NullLocation
    /\ ~(current # NullLocation /\ current.uid = location.uid)

Lookup(location, stage, initial) ==
    [location |-> location, stage |-> stage, initial |-> initial]

(* what the synchronous prefix of handleNavigation reports *)
navigationEvent(location, current) ==
    IF location = NullLocation THEN "noLocation"
    ELSE IF ~startsLookup(location, current) THEN "sameUid"
    ELSE "other"

(* mutant: the enabled check comes after the set-up instead of before it *)
Load_EnabledCheckAfterSetup(rawEnabled, rawMax, rawTrunc) ==
    /\ phase = "init"
    /\ IF rawEnabled = "false"
       THEN /\ phase' = "disabled"
            /\ lastEvent' = "other"
            /\ styles' = TRUE
            /\ panel' = getOrCreatePanel(panel, topbar)
            /\ content' = IF panel THEN content
                          ELSE IF panel' THEN BlankContent ELSE AbsentContent
            /\ hashChangeListener' = TRUE
            /\ UNCHANGED << settings, storedSettings, inflight >>
       ELSE LET location == locationOfHash(hash)
            IN  /\ settings' = readSettings(rawMax, rawTrunc)
                /\ storedSettings' = settings'
                /\ styles' = TRUE
                /\ panel' = getOrCreatePanel(panel, topbar)
                /\ content' = IF panel THEN content
                              ELSE IF panel' THEN BlankContent ELSE AbsentContent
                /\ hashChangeListener' = TRUE
                /\ lastEvent' = navigationEvent(location, currentLocation)
                /\ IF startsLookup(location, currentLocation)
                   THEN /\ inflight' = inflight (+) SetToBag({Lookup(location, "page", TRUE)})
                        /\ phase' = "activating"
                   ELSE /\ inflight' = inflight
                        /\ phase' = "active"
    /\ UNCHANGED << hash, pendingHashEvents, breadcrumbHistory, currentLocation,
                    topbar, click, openRequests, upsertLog >>

(* The activation callback: settings panel, the enabled switch, settings,  *)
(* styles, panel, listener, and the first handleNavigation up to its await *)
(* (or to its end, when it returns early and the unload handle is handed   *)
(* over at once).                                                          *)
Load(rawEnabled, rawMax, rawTrunc) ==
    /\ phase = "init"
    /\ IF rawEnabled = "false"
       THEN /\ phase' = "disabled"
            /\ lastEvent' = "other"
            /\ UNCHANGED << settings, storedSettings, hashChangeListener, inflight,
                            panel, styles, content >>
       ELSE LET location == locationOfHash(hash)
            IN  /\ settings' = readSettings(rawMax, rawTrunc)
                /\ storedSettings' = settings'
                /\ styles' = TRUE
                /\ panel' = getOrCreatePanel(panel, topbar)
                /\ content' = IF panel THEN content
                              ELSE IF panel' THEN BlankContent ELSE AbsentContent
                /\ hashChangeListener' = TRUE
                /\ lastEvent' = navigationEvent(location, currentLocation)
                /\ IF startsLookup(location, currentLocation)
                   THEN /\ inflight' = inflight (+) SetToBag({Lookup(location, "page", TRUE)})
                        /\ phase' = "activating"
                   ELSE /\ inflight' = inflight
                        /\ phase' = "active"
    /\ UNCHANGED << hash, pendingHashEvents, breadcrumbHistory, currentLocation,
                    topbar, click, openRequests, upsertLog >>

(* The host changes the URL hash and queues a hashchange event. *)
HashChange(h) ==
    /\ h # hash
    /\ pendingHashEvents < MaxPendingEvents
    /\ hash' = h
    /\ pendingHashEvents' = pendingHashEvents + 1
    /\ lastEvent' = "other"
    /\ UNCHANGED << phase, settings, storedSettings, hashChangeListener, breadcrumbHistory,
                    currentLocation, inflight, topbar, panel, styles, content,
                    click, openRequests, upsertLog >>

(* The host dispatches a queued hashchange event: the listener, when one   *)
(* is registered, runs handleNavigation up to its first await.             *)
DispatchHashChange ==
    /\ pendingHashEvents > 0
    /\ pendingHashEvents' = pendingHashEvents - 1
    /\ IF ~hashChangeListener
       THEN /\ lastEvent' = "noListener"
            /\ inflight' = inflight
       ELSE LET location == locationOfHash(hash)
            IN  /\ lastEvent' = navigationEvent(location, currentLocation)
                /\ IF startsLookup(location, currentLocation)
                   THEN /\ BagCardinality(inflight) < MaxInFlight
                        /\ inflight' = inflight (+) SetToBag({Lookup(location, "page", FALSE)})
                   ELSE inflight' = inflight
    /\ UNCHANGED << phase, settings, storedSettings, hash, hashChangeListener, breadcrumbHistory,
                    currentLocation, topbar, panel, styles, content, click,
                    openRequests, upsertLog >>

----------------------------------------------------------------------------
(* handleNavigation, after the lookup *)

(* the run of distinct upserts after one more upsert: what follows the     *)
(* item's previous upsert, then the item                                   *)
AppendLog(log, item) ==
    LET same == {i \in 1..Len(log) : log[i].uid = item.uid}
        from == IF same = {} THEN 1 ELSE (CHOOSE i \in same : TRUE) + 1
    IN  Append(SubSeq(log, from, Len(log)), item)

(* which kind of upsert a commit is *)
commitEvent(history, item) ==
    IF \A i \in 1..Len(history) : history[i].uid # item.uid THEN "other"
    ELSE IF history[1].uid = item.uid THEN "commitFront"
    ELSE "commitMoved"

(* the activation callback returns the unload handle when its own          *)
(* handleNavigation call settles                                           *)
phaseAfter(p) == IF p.initial /\ phase = "activating" THEN "active" ELSE phase

(* mutant: the entry takes the kind of the parsed location *)
Commit_LocationKind(p, item) ==
    /\ breadcrumbHistory' =
           updateBreadcrumbHistory(breadcrumbHistory,
                                   [item EXCEPT !.type = p.location.type],
                                   settings.maxBreadcrumbs)
    /\ currentLocation' = p.location
    /\ panel' = getOrCreatePanel(panel, topbar)
    /\ content' = IF panel' THEN renderBreadcrumbs(breadcrumbHistory', settings.truncateLength)
                  ELSE content
    /\ upsertLog' = AppendLog(upsertLog, item)
    /\ lastEvent' = commitEvent(breadcrumbHistory, item)

(* mutant: the commit reads the settings store instead of the captured     *)
(* settings                                                                *)
Commit_ReadsStore(p, item) ==
    /\ breadcrumbHistory' =
           updateBreadcrumbHistory(breadcrumbHistory, item, storedSettings.maxBreadcrumbs)
    /\ currentLocation' = p.location
    /\ panel' = getOrCreatePanel(panel, topbar)
    /\ content' = IF panel'
                  THEN renderBreadcrumbs(breadcrumbHistory', storedSettings.truncateLength)
                  ELSE content
    /\ upsertLog' = AppendLog(upsertLog, item)
    /\ lastEvent' = commitEvent(breadcrumbHistory, item)

(* lines 288-291: upsert, set the current location, render *)
Commit(p, item) ==
    /\ breadcrumbHistory' =
           updateBreadcrumbHistory(breadcrumbHistory, item, settings.maxBreadcrumbs)
    /\ currentLocation' = p.location
    /\ panel' = getOrCreatePanel(panel, topbar)
    /\ content' = IF panel' THEN renderBreadcrumbs(breadcrumbHistory', settings.truncateLength)
                  ELSE content
    /\ upsertLog' = AppendLog(upsertLog, item)
    /\ lastEvent' = commitEvent(breadcrumbHistory, item)

(* queryPageTitle settles: a page item is committed, or the block query starts *)
PageQueryReturn(p) ==
    /\ p \in BagToSet(inflight)
    /\ p.stage = "page"
    /\ LET pageTitle == queryPageTitle(p.location.uid)
       IN  IF pageTitle.found
           THEN /\ Commit(p, pageItem(p.location.uid, pageTitle.text))
                /\ inflight' = inflight (-) SetToBag({p})
                /\ phase' = phaseAfter(p)
           ELSE /\ inflight' = (inflight (-) SetToBag({p}))
                                  (+) SetToBag({Lookup(p.location, "block", p.initial)})
                /\ lastEvent' = "other"
                /\ UNCHANGED << phase, breadcrumbHistory, currentLocation, panel,
                                content, upsertLog >>
    /\ UNCHANGED << settings, storedSettings, hash, pendingHashEvents, hashChangeListener, topbar,
                    styles, click, openRequests >>

(* queryBlockString settles: a block item is committed, or the attempt is dropped *)
BlockQueryReturn(p) ==
    /\ p \in BagToSet(inflight)
    /\ p.stage = "block"
    /\ inflight' = inflight (-) SetToBag({p})
    /\ phase' = phaseAfter(p)
    /\ LET blockString == queryBlockString(p.location.uid)
       IN  IF blockString.found
           THEN Commit(p, blockItem(p.location.uid, blockString.text))
           ELSE /\ lastEvent' = "miss"
                /\ UNCHANGED << breadcrumbHistory, currentLocation, panel, content,
                                upsertLog >>
    /\ UNCHANGED << settings, storedSettings, hash, pendingHashEvents, hashChangeListener, topbar,
                    styles, click, openRequests >>

----------------------------------------------------------------------------
(* cleanup: the unload handle *)
(* mutant: cleanup clears the history and leaves the current location *)
Cleanup_KeepsCurrentLocation ==
    /\ phase = "active"
    /\ phase' = "unloaded"
    /\ hashChangeListener' = FALSE
    /\ panel' = FALSE
    /\ styles' = FALSE
    /\ content' = AbsentContent
    /\ breadcrumbHistory' = <<>>
    /\ upsertLog' = <<>>
    /\ lastEvent' = "other"
    /\ UNCHANGED << settings, storedSettings, hash, pendingHashEvents, inflight, topbar, click,
                    openRequests, currentLocation >>

Cleanup ==
    /\ phase = "active"
    /\ phase' = "unloaded"
    /\ hashChangeListener' = FALSE
    /\ panel' = FALSE
    /\ styles' = FALSE
    /\ content' = AbsentContent
    /\ breadcrumbHistory' = <<>>
    /\ currentLocation' = NullLocation
    /\ upsertLog' = <<>>
    /\ lastEvent' = "other"
    /\ UNCHANGED << settings, storedSettings, hash, pendingHashEvents, inflight, topbar, click,
                    openRequests >>

----------------------------------------------------------------------------
Next ==
    \/ \E rawEnabled \in RawEnabled, rawMax \in RawMaxBreadcrumbs,
          rawTrunc \in RawTruncateLength : Load(rawEnabled, rawMax, rawTrunc)
    \/ \E h \in HashValues : HashChange(h)
    \/ DispatchHashChange
    \/ \E p \in BagToSet(inflight) : PageQueryReturn(p)
    \/ \E p \in BagToSet(inflight) : BlockQueryReturn(p)
    \/ Cleanup

Spec == Init /\ [][Next]_vars

----------------------------------------------------------------------------
(* The strip on its own: renderBreadcrumbs and the click listeners of the  *)
(* elements it creates, over histories whose page has any title of Texts   *)
(* and over the truncate lengths readSettings can yield.  The extension    *)
(* is active on a route that is no page, with its panel mounted.           *)

MaxTextLen == 5

TextChars == { "a", " ", "*", Backtick }

Texts == UNION { [1..n -> TextChars] : n \in 0..MaxTextLen }

(* a page of the graph, titled by any text *)
pgT == << "p", "g", "T" >>

StripRawTruncateLength == { RawUndefined, RawNumber(5), RawNumber(10), RawString(30) }

(* the sequences without repetition over a set of items *)
Orderings(items) ==
    { h \in UNION { [1..n -> items] : n \in 0..Cardinality(items) } :
          \A i, j \in 1..Len(h) : i # j => h[i] # h[j] }

StripHistories ==
    UNION { Orderings({ pageItem(pgT, text), blockItem(blk2, EmptyBlockText) }) :
                text \in Texts }

StripInit ==
    /\ phase = "active"
    /\ \E rawTrunc \in StripRawTruncateLength :
           settings = readSettings(RawUndefined, rawTrunc)
    /\ storedSettings = settings
    /\ hash = AppRoute
    /\ pendingHashEvents = 0
    /\ hashChangeListener = TRUE
    /\ breadcrumbHistory \in StripHistories
    /\ currentLocation = IF breadcrumbHistory = <<>> THEN NullLocation
                         ELSE [type |-> breadcrumbHistory[1].type,
                               uid |-> breadcrumbHistory[1].uid]
    /\ inflight = EmptyBag
    /\ topbar = TRUE
    /\ panel = TRUE
    /\ styles = TRUE
    /\ content = BlankContent
    /\ click = NoClick
    /\ openRequests = <<>>
    /\ upsertLog = Reverse(breadcrumbHistory)
    /\ lastEvent = "other"

(* renderBreadcrumbs({ truncateLength: settings.truncateLength }) *)
Render ==
    /\ content = BlankContent
    /\ panel' = getOrCreatePanel(panel, topbar)
    /\ content' = IF panel'
                  THEN renderBreadcrumbs(breadcrumbHistory, settings.truncateLength)
                  ELSE content
    /\ UNCHANGED << phase, settings, storedSettings, hash, pendingHashEvents, hashChangeListener,
                    breadcrumbHistory, currentLocation, inflight, topbar, styles,
                    click, openRequests, upsertLog, lastEvent >>

(* the user clicks the index-th breadcrumb element, with or without the    *)
(* shift key: the element's click listener runs, when it has one           *)
Click(index, shiftKey) ==
    /\ content.kind = "items"
    /\ index \in 1..Len(content.items)
    /\ click' = [index |-> index, shiftKey |-> shiftKey]
    /\ openRequests' = LET element == content.items[index]
                       IN  IF element.clickable
                           THEN navigateTo(element.uid, element.type)
                           ELSE <<>>
    /\ UNCHANGED << phase, settings, storedSettings, hash, pendingHashEvents, hashChangeListener,
                    breadcrumbHistory, currentLocation, inflight, topbar, panel,
                    styles, content, upsertLog, lastEvent >>

MaxStripItems == 2

StripNext ==
    \/ Render
    \/ \E index \in 1..MaxStripItems, shiftKey \in BOOLEAN : Click(index, shiftKey)

SpecStrip == StripInit /\ [][StripNext]_vars

----------------------------------------------------------------------------
(* The extension with a user who edits the two inputs of the settings      *)
(* panel while the extension runs.  Nothing in index.ts listens to such a  *)
(* change: it reaches the program only through the next readSettings.      *)

SettingIds == {"maxBreadcrumbs", "truncateLength"}

RawSettingChanges == { RawNumber(10) }

(* the user types a value into the input of setting `id` *)
SettingChange(id, raw) ==
    /\ phase \in {"activating", "active"}
    /\ storedSettings' =
           [storedSettings EXCEPT ![id] = parsePositiveInteger(raw, DEFAULT_SETTINGS[id])]
    /\ storedSettings' # storedSettings
    /\ lastEvent' = "other"
    /\ UNCHANGED << phase, settings, hash, pendingHashEvents, hashChangeListener,
                    breadcrumbHistory, currentLocation, inflight, topbar, panel,
                    styles, content, click, openRequests, upsertLog >>

SettingsNext ==
    \/ Next
    \/ \E id \in SettingIds, raw \in RawSettingChanges : SettingChange(id, raw)

SpecSettings == Init /\ [][SettingsNext]_vars

----------------------------------------------------------------------------
(* Vocabulary of the properties *)

HistoryUids == {breadcrumbHistory[i].uid : i \in 1..Len(breadcrumbHistory)}

(* the graph holds a page, or a block, with this uid *)
PageExists(uid) == PageTitleRows(uid) # <<>>

BlockExists(uid) == BlockStringRows(uid) # <<>>

(* this step ends the suspended handleNavigation call p *)
Completes(p) ==
    /\ p \in BagToSet(inflight)
    /\ inflight' = inflight (-) SetToBag({p})

(* this step ends a lookup of an id the graph resolves *)
CompletesHit(p) == Completes(p) /\ (PageExists(p.location.uid) \/ BlockExists(p.location.uid))

(* this step is the listener running on a dispatched hashchange event *)
ListenerRuns == hashChangeListener /\ pendingHashEvents' = pendingHashEvents - 1

(* the tracked current location is that of the latest routing signal *)
CurrentMatchesSignal ==
    /\ currentLocation # NullLocation
    /\ locationOfHash(hash) # NullLocation
    /\ currentLocation.uid = locationOfHash(hash).uid

----------------------------------------------------------------------------
(* C1: in every reachable state the history holds at most cap + 1 entries, *)
(* cap being the maxBreadcrumbs value read at activation (and no entry     *)
(* before activation).                                                     *)
C1_HistoryAtMostCapPlusOne ==
    IF settings = NullSettings
    THEN breadcrumbHistory = <<>>
    ELSE Len(breadcrumbHistory) <= settings.maxBreadcrumbs + 1

(* a full history after more distinct upserts than it can hold *)
C1_Witness ==
    /\ settings # NullSettings
    /\ Len(breadcrumbHistory) = settings.maxBreadcrumbs + 1
    /\ Len(upsertLog) > settings.maxBreadcrumbs + 1

(* C2: in every reachable state no two entries of the history share a uid, *)
(* also when lookups that were in flight together commit the same uid.     *)
C2_NoDuplicateUids ==
    \A i, j \in 1..Len(breadcrumbHistory) :
        i # j => breadcrumbHistory[i].uid # breadcrumbHistory[j].uid

(* two lookups of one uid were in flight together and both committed, into *)
(* a history of three entries                                              *)
C2_Witness ==
    /\ lastEvent = "commitFront"
    /\ Len(breadcrumbHistory) = 3

(* C3: last requested location wins: once the tracked current location is  *)
(* that of the latest routing signal, the completion of an older lookup    *)
(* does not replace it while the signal stays the same (only cleanup       *)
(* unsets it).                                                             *)
C3_LastRequestedWins ==
    [][ (CurrentMatchesSignal /\ hash' = hash /\ currentLocation' # NullLocation)
            => CurrentMatchesSignal' ]_vars

(* C4: teardown is final: after cleanup the history is empty and the       *)
(* current location unset, in that state and in every later one.           *)
C4_TeardownFinal ==
    phase = "unloaded" =>
        /\ breadcrumbHistory = <<>>
        /\ currentLocation = NullLocation

(* C5: the completion of a lookup of an id that is neither a page nor a    *)
(* block changes neither the history nor the current location and renders  *)
(* nothing.                                                                *)
C5_MissChangesNothing ==
    [][ \A p \in BagToSet(inflight) :
            (Completes(p) /\ ~PageExists(p.location.uid) /\ ~BlockExists(p.location.uid))
                => UNCHANGED << breadcrumbHistory, currentLocation, panel, content >> ]_vars

(* a lookup has just missed while a trail and a current location exist *)
C5_Witness ==
    /\ lastEvent = "miss"
    /\ breadcrumbHistory # <<>>
    /\ currentLocation # NullLocation

(* C6: when the listener runs on a signal whose location has the uid of    *)
(* the tracked current location, no lookup starts and history, current     *)
(* location and rendered strip stay as they are.                           *)
C6_SameUidIsNoOp ==
    [][ (ListenerRuns /\ CurrentMatchesSignal)
            => UNCHANGED << inflight, breadcrumbHistory, currentLocation, panel, content >> ]_vars

(* the listener has just returned on the same-uid check, on a decorated    *)
(* hash of the current page                                                *)
C6_Witness ==
    /\ lastEvent = "sameUid"
    /\ hash = WithQuery(PageHash(pgA), ViewParam)

(* C7: move-to-front: committing an entry whose uid is already in the      *)
(* history puts it first, keeps the other entries in their order and       *)
(* keeps the length.                                                       *)
C7_MoveToFront ==
    [][ \A p \in BagToSet(inflight) :
            (CompletesHit(p) /\ p.location.uid \in HistoryUids)
                => /\ breadcrumbHistory' # <<>>
                   /\ breadcrumbHistory'[1].uid = p.location.uid
                   /\ Tail(breadcrumbHistory') =
                          SelectSeq(breadcrumbHistory, LAMBDA e : e.uid # p.location.uid)
                   /\ Len(breadcrumbHistory') = Len(breadcrumbHistory) ]_vars

(* an entry has just been moved to the front of a history of three *)
C7_Witness ==
    /\ lastEvent = "commitMoved"
    /\ Len(breadcrumbHistory) = 3

(* C8: eviction is oldest-first: after k > cap + 1 upserts in a row of     *)
(* pairwise distinct uids the history is exactly the cap + 1 most recent   *)
(* of them, most recent first.                                             *)
C8_EvictsOldestFirst ==
    LET k == Len(upsertLog)
        cap == settings.maxBreadcrumbs
    IN  (settings # NullSettings /\ k > cap + 1)
            => /\ Len(breadcrumbHistory) = cap + 1
               /\ \A i \in 1..(cap + 1) : breadcrumbHistory[i] = upsertLog[k + 1 - i]

(* three distinct upserts in a row under cap 1 *)
C8_Witness ==
    /\ settings.maxBreadcrumbs = 1
    /\ Len(upsertLog) = 3

(* C9: upsert is idempotent: committing the entry that the previous upsert *)
(* put first leaves the history as it is.                                  *)
C9_UpsertIdempotent ==
    [][ \A p \in BagToSet(inflight) :
            (CompletesHit(p) /\ breadcrumbHistory # <<>>
                 /\ breadcrumbHistory[1].uid = p.location.uid)
                => breadcrumbHistory' = breadcrumbHistory ]_vars

(* the front entry has just been upserted again, into a full history of two *)
C9_Witness ==
    /\ lastEvent = "commitFront"
    /\ settings.maxBreadcrumbs = 1
    /\ Len(breadcrumbHistory) = 2

(* C10: the strip of a non-empty history shows one item per entry, in the  *)
(* reverse of storage order, and flags isCurrent on the last item only.    *)
C10_RenderOldestToCurrent ==
    /\ (panel /\ breadcrumbHistory # <<>>) => content.kind = "items"
    /\ content.kind = "items" =>
        LET n == Len(breadcrumbHistory)
        IN  /\ n > 0
            /\ Len(content.items) = n
            /\ \A i \in 1..n :
                  /\ content.items[i].uid = breadcrumbHistory[n + 1 - i].uid
                  /\ content.items[i].isCurrent <=> (i = n)

(* a rendered strip of three items *)
C10_Witness ==
    /\ content.kind = "items"
    /\ Len(content.items) = 3

(* C11: rendering an empty history leaves exactly the "No history yet"     *)
(* placeholder in the content element, never an empty run of breadcrumbs.  *)
C11_EmptyHistoryRendersPlaceholder ==
    (breadcrumbHistory = <<>> /\ content.kind \notin {"absent", "blank"})
        => /\ content.kind = "placeholder"
           /\ content.text = NoHistoryText
           /\ content.items = <<>>

(* renderBreadcrumbs has run on the empty history *)
C11_Witness ==
    /\ breadcrumbHistory = <<>>
    /\ content = PlaceholderContent

(* C12: every rendered breadcrumb but the current one carries a click      *)
(* listener, the current one carries none; a click on a non-current        *)
(* breadcrumb makes exactly one host call, openPage for a page entry and   *)
(* openBlock for a block entry, with the entry's uid; a click on the       *)
(* current breadcrumb makes none.                                          *)
C12_ClickOpensEntry ==
    content.kind = "items" =>
        LET shown == Reverse(breadcrumbHistory)
            n == Len(content.items)
        IN  /\ \A i \in 1..n : content.items[i].clickable <=> (i < n)
            /\ click.index # 0 =>
                   openRequests =
                       IF click.index = n THEN <<>>
                       ELSE << [ api |-> IF shown[click.index].type = "page"
                                        THEN "mainWindow.openPage"
                                        ELSE "mainWindow.openBlock",
                                 uid |-> shown[click.index].uid ] >>

(* the older of two breadcrumbs, a page, has been clicked and its listener *)
(* has called the host                                                     *)
C12_Witness ==
    /\ content.kind = "items"
    /\ Len(content.items) = 2
    /\ click.index = 1
    /\ content.items[1].type = "page"
    /\ Len(openRequests) = 1

(* C13: a click with the shift key held on a non-current breadcrumb opens  *)
(* the entry in the right sidebar: the listener makes one host call, to    *)
(* the right sidebar, with the entry's uid.                                *)
C13_ShiftClickOpensSidebar ==
    (content.kind = "items" /\ click.index # 0 /\ click.shiftKey
        /\ click.index < Len(content.items))
        => openRequests =
               << [ api |-> "rightSidebar.addWindow",
                    uid |-> Reverse(breadcrumbHistory)[click.index].uid ] >>

(* C14: for every text and every maximum length n >= 1, the label          *)
(* truncateText returns is at most n characters long.                      *)
C14_LabelAtMostTruncateLength ==
    (content.kind = "items" /\ settings.truncateLength >= 1)
        => \A i \in 1..Len(content.items) :
               Len(content.items[i].textContent) <= settings.truncateLength

(* C15: the settings read at activation are integers >= 1, whatever the    *)
(* stored raw values are.                                                  *)
C15_SettingsAtLeastOne ==
    settings # NullSettings
        => /\ settings.maxBreadcrumbs \in Nat /\ settings.maxBreadcrumbs >= 1
           /\ settings.truncateLength \in Nat /\ settings.truncateLength >= 1

(* C16: when the listener runs, the location it acts on is read from the   *)
(* hash with the block pattern first: a page route with a block parameter  *)
(* is the block of that parameter, a page route without one is the page,   *)
(* any other hash is no location and nothing is looked up.  Acting on a    *)
(* location is starting its lookup, unless it has the current uid.         *)
C16_BlockPatternBeforePagePattern ==
    [][ ListenerRuns =>
          LET ActsOn(location) ==
                  inflight' = IF currentLocation.uid = location.uid THEN inflight
                              ELSE inflight (+) SetToBag({Lookup(location, "page", FALSE)})
          IN  /\ \A page \in Uids, block \in Uids :
                     hash = WithQuery(PageHash(page), BlockParam \o block)
                         => ActsOn([type |-> "block", uid |-> block])
              /\ \A page \in Uids :
                     hash \in {PageHash(page), WithQuery(PageHash(page), ViewParam)}
                         => ActsOn([type |-> "page", uid |-> page])
              /\ hash = AppRoute => inflight' = inflight ]_vars

(* the listener has run on a page route with a block parameter and the     *)
(* lookup of that block is in flight                                       *)
C16_Witness ==
    /\ hash = WithQuery(PageHash(pgA), BlockParam \o blk2)
    /\ pendingHashEvents = 0
    /\ hashChangeListener
    /\ \E p \in BagToSet(inflight) :
           p.location = [type |-> "block", uid |-> blk2] /\ ~p.initial

(* C17: a lookup that ends commits, as the first history entry, a page     *)
(* entry with the page title when the graph holds a page title for the     *)
(* uid; otherwise a block entry with the block's text, or with             *)
(* "(empty block)" when the block exists and its text is empty; otherwise  *)
(* it commits nothing.                                                     *)
C17_PageTitleThenBlockText ==
    [][ \A p \in BagToSet(inflight) :
            Completes(p) =>
                LET uid == p.location.uid
                    blockText == BlockStringRows(uid)[1][1]
                IN  IF PageExists(uid)
                    THEN breadcrumbHistory'[1] =
                             [uid |-> uid, type |-> "page", title |-> PageTitleRows(uid)[1][1]]
                    ELSE IF BlockExists(uid)
                    THEN breadcrumbHistory'[1] =
                             [uid |-> uid, type |-> "block",
                              title |-> IF blockText = <<>> THEN EmptyBlockText ELSE blockText]
                    ELSE UNCHANGED << breadcrumbHistory, currentLocation >> ]_vars

(* the lookup of the block without text has committed its entry *)
C17_Witness ==
    /\ breadcrumbHistory # <<>>
    /\ breadcrumbHistory[1] = [uid |-> blk2, type |-> "block", title |-> EmptyBlockText]

(* C18: when the stored `enabled` setting is false at activation the       *)
(* extension stays off: no listener is registered, no panel and no style   *)
(* element is mounted, no lookup runs, and history and current location    *)
(* stay empty whatever the hash does afterwards.                           *)
C18_DisabledStaysOff ==
    phase = "disabled"
        => /\ ~hashChangeListener
           /\ ~panel /\ ~styles /\ content = AbsentContent
           /\ inflight = EmptyBag
           /\ breadcrumbHistory = <<>>
           /\ currentLocation = NullLocation

(* activated with enabled = false, and a hashchange event has since been   *)
(* dispatched                                                              *)
C18_Witness ==
    /\ phase = "disabled"
    /\ lastEvent = "noListener"

(* C19: once the unload handle has run, no injected panel and no injected  *)
(* style element exists, then and in every later state: a lookup that was  *)
(* in flight does not bring the panel back when it completes.              *)
C19_NoPanelAfterUnload ==
    phase = "unloaded" => (~panel /\ ~styles)

(* C20: stripMarkdown is idempotent: stripping the tooltip of a rendered   *)
(* breadcrumb, which is the stripped title, gives the tooltip again.       *)
C20_StripMarkdownIdempotent ==
    content.kind = "items"
        => \A i \in 1..Len(content.items) :
               stripMarkdown(content.items[i].title) = content.items[i].title

(* C21: when the listener runs on a hash that neither location pattern     *)
(* matches, no lookup starts and history, current location and rendered    *)
(* strip stay as they are.                                                 *)
C21_UnrecognizedHashIsNoOp ==
    [][ (ListenerRuns /\ hash = AppRoute)
            => UNCHANGED << inflight, breadcrumbHistory, currentLocation, panel, content >> ]_vars

(* the listener has just returned on a hash without location, with a       *)
(* trail and a current location recorded                                   *)
C21_Witness ==
    /\ lastEvent = "noLocation"
    /\ hash = AppRoute
    /\ hashChangeListener
    /\ breadcrumbHistory # <<>>
    /\ currentLocation.uid = breadcrumbHistory[1].uid

(* C22: quiescent consistency: when the extension is active, every queued  *)
(* hashchange event has been dispatched, no lookup is in flight and the    *)
(* hash is a location the graph resolves, the current location and the     *)
(* first history entry both carry the uid of that location.                *)
C22_QuiescentConsistency ==
    LET location == locationOfHash(hash)
    IN  ( /\ phase = "active"
          /\ hashChangeListener
          /\ pendingHashEvents = 0
          /\ inflight = EmptyBag
          /\ location # NullLocation
          /\ (PageExists(location.uid) \/ BlockExists(location.uid)) )
            => /\ currentLocation.uid = location.uid
               /\ breadcrumbHistory # <<>>
               /\ breadcrumbHistory[1].uid = location.uid

(* C23: in every reachable state the current location *)
(* is set exactly when the history is non-empty, it then carries the uid   *)
(* of the first history entry, and the breadcrumb rendered as current is   *)
(* the one of that uid.                                                    *)
C23_CurrentIsFirstEntry ==
    /\ (currentLocation # NullLocation) <=> (breadcrumbHistory # <<>>)
    /\ breadcrumbHistory # <<>> => currentLocation.uid = breadcrumbHistory[1].uid
    /\ content.kind = "items" =>
           /\ content.items[Len(content.items)].isCurrent
           /\ content.items[Len(content.items)].uid = currentLocation.uid

(* a second location has been committed and rendered as current *)
C23_Witness ==
    /\ Len(breadcrumbHistory) >= 2
    /\ currentLocation.uid = breadcrumbHistory[1].uid
    /\ content.kind = "items"
    /\ content.items[Len(content.items)].uid = currentLocation.uid

(* C24: whenever the extension is active, its panel is mounted and the     *)
(* history is empty, the strip shows the "No history yet" placeholder.     *)
C24_PlaceholderWhileEmpty ==
    (phase = "active" /\ panel /\ breadcrumbHistory = <<>>)
        => content = PlaceholderContent

(* C25: truncation never underflows: with a truncate length of at most 1   *)
(* (0 included) a label whose cleaned text is longer than the length is    *)
(* the first max(0, length - 1) characters of the cleaned text followed by *)
(* the ellipsis, never a prefix taken with a negative slice end.           *)
C25_TruncateNeverUnderflows ==
    LET maxLength == settings.truncateLength
        kept == IF maxLength - 1 > 0 THEN maxLength - 1 ELSE 0
    IN  (content.kind = "items" /\ maxLength <= 1)
            => \A i \in 1..Len(content.items) :
                   LET cleaned == content.items[i].title
                   IN  Len(cleaned) > maxLength
                           => content.items[i].textContent
                                  = SubSeq(cleaned, 1, kept) \o Ellipsis

(* C26: the same-uid short-circuit looks only at the committed current     *)
(* location: a signal for a uid whose lookup is still in flight (and that  *)
(* is not the current location) starts one more lookup of that uid, and    *)
(* whenever a lookup of a resolvable uid completes, the history holds      *)
(* exactly one entry for that uid.                                         *)
C26_ShortCircuitIgnoresInFlight ==
    [][ LET location == locationOfHash(hash)
        IN  /\ ( /\ ListenerRuns
                 /\ location # NullLocation
                 /\ \E q \in BagToSet(inflight) : q.location.uid = location.uid
                 /\ ~(currentLocation # NullLocation
                      /\ currentLocation.uid = location.uid) )
                  => inflight' = inflight (+) SetToBag({Lookup(location, "page", FALSE)})
            /\ \A p \in BagToSet(inflight) :
                   CompletesHit(p)
                       => Cardinality({ i \in 1..Len(breadcrumbHistory') :
                                          breadcrumbHistory'[i].uid = p.location.uid }) = 1
      ]_vars

(* two lookups of one uid were in flight together; the second has just     *)
(* committed onto the entry the first one made, and nothing is in flight   *)
C26_Witness ==
    /\ lastEvent = "commitFront"
    /\ inflight = EmptyBag
    /\ Cardinality({ i \in 1..Len(breadcrumbHistory) :
                       breadcrumbHistory[i].uid = currentLocation.uid }) = 1

(* C27: the kind of every history entry, and of the element rendered for   *)
(* it, is the kind the content lookup returned (page whenever the uid has  *)
(* a page title, block otherwise), not the kind of the parsed location; so *)
(* the current location and the first entry may differ in kind while they  *)
(* agree on the uid.                                                       *)
C27_EntryKindIsResolvedKind ==
    LET resolvedKind(uid) == IF queryPageTitle(uid).found THEN "page" ELSE "block"
    IN  /\ \A i \in 1..Len(breadcrumbHistory) :
               breadcrumbHistory[i].type = resolvedKind(breadcrumbHistory[i].uid)
        /\ content.kind = "items"
               => \A i \in 1..Len(content.items) :
                      content.items[i].type = resolvedKind(content.items[i].uid)

(* a block reached through a page route: the location is a page, the entry *)
(* a block                                                                 *)
C27_Witness ==
    /\ breadcrumbHistory # <<>>
    /\ currentLocation.uid = breadcrumbHistory[1].uid
    /\ currentLocation.type = "page"
    /\ breadcrumbHistory[1].type = "block"
    /\ content.kind = "items"

(* C28: the cap and the truncate length in use between activation and      *)
(* deactivation are the values read once at activation: a change of the    *)
(* maxBreadcrumbs or truncateLength setting changes neither the captured   *)
(* settings nor the history nor the strip, the captured settings stay the  *)
(* same from activation on, and every later upsert and render is bounded   *)
(* and labelled by them.                                                   *)
C28_SettingsReadOnceAtActivation ==
    [][ /\ storedSettings' # storedSettings /\ phase # "init"
             => UNCHANGED << settings, breadcrumbHistory, content >>
        /\ phase # "init" => settings' = settings
        /\ breadcrumbHistory' # breadcrumbHistory
             => Len(breadcrumbHistory') <= settings.maxBreadcrumbs + 1
        /\ (content' # content /\ content'.kind = "items")
             => /\ Len(content'.items) = Len(breadcrumbHistory')
                /\ \A i \in 1..Len(content'.items) :
                       content'.items[i].textContent
                           = truncateText(
                                 breadcrumbHistory'[Len(breadcrumbHistory') + 1 - i].title,
                                 settings.truncateLength)
      ]_vars

(* both settings were changed after activation, and an upsert that came    *)
(* after the changes left a history longer than the stored cap allows      *)
C28_Witness ==
    /\ lastEvent = "commitMoved"
    /\ settings.maxBreadcrumbs = 8
    /\ storedSettings = [maxBreadcrumbs |-> 1, truncateLength |-> 1]
    /\ Len(breadcrumbHistory) = 3
    /\ content.kind = "items"

====
